---- MODULE Spec2Model ----
(***************************************************************************)
(* Model of the gmail-checker-sender command-line tools:                   *)
(*   send_email.py          (send_email, send_reply)                       *)
(*   notify_designer.py     (send_designer_notification)                   *)
(*   add_calendar_event.py  (add_event)                                    *)
(*   capture_email.py       (capture_email)                                *)
(* Every tool is a one-shot, single-threaded process.  A run is a walk of  *)
(* pc through the script; the steps are cut at the blocking I/O points     *)
(* (file access, remote calls, console input).  The files on disk outlive  *)
(* a run, everything else is reset when the next process starts.           *)
(* Text is modelled as a sequence of tokens, Python dicts as records with  *)
(* the same keys, Python None as a record of kind "none".                  *)
(***************************************************************************)
EXTENDS Integers, Sequences, FiniteSets, TLC

(* ------------------------------ bounds -------------------------------- *)

\* Number of processes started one after the other on the same disk.
MaxRuns == 2
\* Largest number of messages a query finds in the model.
MaxFound == 2

(* ------------------------- program constants -------------------------- *)

DEFAULT_ACCOUNT == "livemomentssg@gmail.com"
CALENDAR_ADMIN == "jml0dbb0k0pq0qfdlhdo89oql0@group.calendar.google.com"
CALENDAR_MAIN == "livemomentssg@gmail.com"
DESIGNER_EMAIL == "designer@livemoments.com.sg"
FROM_ADDRESS == "hello@livemoments.com.sg"
\* Length of the message-id prefix used in a cache key.
KeyPrefixLen == 8

(* ----------------------------- helpers -------------------------------- *)

Contains(s, x) == \E i \in DOMAIN s : s[i] = x

Count(s, x) == Cardinality({i \in DOMAIN s : s[i] = x})

\* s holds t as a contiguous run of tokens.
HasSubSeq(s, t) ==
    \E i \in 0..(Len(s) - Len(t)) : SubSeq(s, i + 1, i + Len(t)) = t

(* ------------------------- values on disk ----------------------------- *)

Absent == [kind |-> "absent"]
Corrupt == [kind |-> "corrupt"]
\* A stored credential record: expiry state, refresh token, access token.
CredRec(e, r, t) ==
    [kind |-> "creds", expired |-> e, refresh_token |-> r, token |-> t]
\* Python None
None == [kind |-> "none"]

IsCreds(c) == c.kind = "creds"

\* account.replace('@', '_at_')
AtReplaced(account) ==
    IF account = "livemomentssg@gmail.com" THEN "livemomentssg_at_gmail.com"
    ELSE account

\* Path.home() / ".nanobot" / "credentials" / "gmail" / "<account>.token"
TokenFilePath(account) ==
    <<"~/.nanobot/credentials/gmail/", AtReplaced(account), ".token">>

\* Path.home() / ".nanobot" / "credentials" / "<account>.json"
AltPath(account) == <<"~/.nanobot/credentials/", account, ".json">>

\* str(None)
NonePath == <<"None">>

VARIABLES
    runs,        \* processes started so far
    disk,        \* the files: token_file, alt_path, token_json,
                 \* credentials_json, cache
    disk0,       \* the files as the running process found them
    tool,        \* the script of the running process
    fn,          \* the function main dispatched to
    args,        \* parsed command line
    pc,          \* position in the script
    creds_path,  \* load_credentials: which file was chosen ("none" if none)
    creds,       \* the credential record in memory
    refreshed,   \* a refresh exchange succeeded in this run
    calls,       \* remote calls issued in this run, in order
    loc,         \* locals of the running function
    exc,         \* the exception raised in this run, if any
    result,      \* the result record the function returned
    out,         \* lines printed
    uncaught,    \* an exception reached the process boundary
    exitCode     \* process exit code, -1 while running

vars == <<runs, disk, disk0, tool, fn, args, pc, creds_path, creds, refreshed,
          calls, loc, exc, result, out, uncaught, exitCode>>

(* --------------------------- result records -------------------------- *)

\* {'success': False, 'error': msg}
Failure(msg) == [success |-> FALSE, error |-> msg]

\* {'success': False, 'error': 'User cancelled', 'preview_only': True}
Cancelled ==
    [success |-> FALSE, error |-> <<"User cancelled">>, preview_only |-> TRUE]

\* result.get(key): the value when the key is present and true.
Get(r, key) == key \in DOMAIN r /\ r[key] = TRUE

NoExc == [where |-> "none", msg |-> <<>>]
\* An exception raised at `where`; str(e) is msg.
Raised(where, msg) == [where |-> where, msg |-> msg]

StdOut(text) == [stream |-> "stdout", text |-> text]
StdErr(text) == [stream |-> "stderr", text |-> text]
\* print(json.dumps(value, indent=2))
JsonOut(value) == [stream |-> "stdout", json |-> value]
\* print(json.dumps(captured, indent=2)) of a list: a JSON array
JsonArrayOut(list) == [stream |-> "stdout", json_array |-> list]

(* --------------------------- command lines ---------------------------- *)

\* Python None where a string is expected
NoStr == "<None>"

Subjects == {<<"Quote">>, <<"Re: ", "Quote">>}

\* --reply-subject takes any text, a forwarded reply's subject included.
ReplySubjects == Subjects \cup {<<"Re: ", "Fwd: ", "Re: ", "Quote">>}

\* args.reply_subject is None when the flag is absent: modelled as <<>>,
\* which `not args.reply_subject` treats the same way.
SendArgs ==
    {a \in [account : {DEFAULT_ACCOUNT}, to : {"client@example.com"},
            subject : Subjects, reply_to : {NoStr, "thread-1"},
            reply_subject : {<<>>} \cup ReplySubjects,
            from_address : {NoStr, FROM_ADDRESS},
            draft : BOOLEAN, yes : BOOLEAN, json : BOOLEAN] :
        /\ a.reply_to = NoStr => a.reply_subject = <<>>
        /\ a.reply_to # NoStr => a.subject = <<"Quote">>}

NotifyArgs ==
    [account : {DEFAULT_ACCOUNT}, client : {"Acme"}, poc : {"Jane"},
     date : {"24 May 2026"}, draft : BOOLEAN, yes : BOOLEAN, json : BOOLEAN]

\* --status and --type are restricted by argparse `choices` when the script
\* is run; add_event itself (entry "call") accepts any string.
Statuses == {"TBC", "CONFIRMED", "tbc", "PENDING"}
StatusChoices == {"TBC", "CONFIRMED"}
CalendarArgs ==
    {a \in [account : {DEFAULT_ACCOUNT}, company : {"Acme"}, poc : {"Jane"},
            type : {"EVENT", "live"}, status : Statuses,
            entry : {"main", "call"}, json : BOOLEAN] :
        /\ a.entry = "main" => a.type = "EVENT"
        /\ a.entry = "call" => ~a.json}

CaptureArgs == [query : {"from:jean"}, save : BOOLEAN, json : BOOLEAN]

Tools ==
    {"send_email.py", "notify_designer.py", "add_calendar_event.py",
     "capture_email.py"}

ArgsOf(t) ==
    CASE t = "send_email.py" -> SendArgs
      [] t = "notify_designer.py" -> NotifyArgs
      [] t = "add_calendar_event.py" -> CalendarArgs
      [] t = "capture_email.py" -> CaptureArgs

(* ------------------------------ Init ---------------------------------- *)

StoredCreds == {CredRec(e, r, 0) : e \in BOOLEAN, r \in BOOLEAN}

\* A cache file holding a JSON object: data is the text's members in file
\* order, each a <<key, record>> pair.
CacheObject(data) == [kind |-> "object", data |-> data]
EmptyCache == CacheObject(<<>>)
\* A cache file holding valid JSON that is not an object (a list).
ArrayCache == [kind |-> "array"]

\* The disks a first run may find.  The pickled token files and the files of
\* the capture tool are varied separately.
InitDisks ==
    {[token_file |-> t, alt_path |-> a, token_json |-> Absent,
      credentials_json |-> Absent, cache |-> Absent] :
        t \in {Absent, Corrupt} \cup StoredCreds,
        a \in {Absent, Corrupt, CredRec(TRUE, TRUE, 0)}}
    \cup
    {[token_file |-> Absent, alt_path |-> Absent, token_json |-> j,
      credentials_json |-> c, cache |-> k] :
        j \in {Absent, Corrupt} \cup StoredCreds,
        c \in {Absent, [kind |-> "present"]},
        k \in {Absent, Corrupt, ArrayCache, EmptyCache}}

NoLoc ==
    [sender |-> NoStr, preview |-> <<>>, response |-> NoStr, gate |-> "none",
     msg |-> None, calendar_id |-> NoStr, color_id |-> NoStr,
     title_prefix |-> NoStr, title |-> <<>>, messages |-> <<>>,
     captured |-> <<>>]

Init ==
    /\ runs = 0
    /\ disk \in InitDisks
    /\ disk0 = disk
    /\ tool = "none"
    /\ fn = "none"
    /\ args = [none |-> TRUE]
    /\ pc = "idle"
    /\ creds_path = "none"
    /\ creds = None
    /\ refreshed = FALSE
    /\ calls = <<>>
    /\ loc = NoLoc
    /\ exc = NoExc
    /\ result = None
    /\ out = <<>>
    /\ uncaught = FALSE
    /\ exitCode = -1

(* ------------------------ process start-up ---------------------------- *)

\* Time passing between two runs: a stored access token may have expired
\* (`expired` is the record's expiry time compared with the clock).
Expire(f) == IF IsCreds(f) THEN [f EXCEPT !.expired = TRUE] ELSE f

Aged(d) ==
    [d EXCEPT !.token_file = Expire(@), !.alt_path = Expire(@),
              !.token_json = Expire(@)]

FirstPc(t, a) ==
    CASE t = "send_email.py" -> "read_body"
      [] t = "notify_designer.py" -> "load"
      [] t = "add_calendar_event.py" ->
            IF a.entry = "main" /\ a.status \notin StatusChoices
            THEN "usage" ELSE "load"
      [] t = "capture_email.py" -> "get_credentials"

FirstFn(t) ==
    CASE t = "send_email.py" -> "main"
      [] t = "notify_designer.py" -> "send_designer_notification"
      [] t = "add_calendar_event.py" -> "add_event"
      [] t = "capture_email.py" -> "main"

\* A new process: parser.parse_args() has the command line in args.
Start ==
    /\ pc = "idle"
    /\ runs < MaxRuns
    /\ \E t \in Tools : \E a \in ArgsOf(t) : \E aged \in BOOLEAN :
        /\ tool' = t
        /\ args' = a
        /\ fn' = FirstFn(t)
        /\ pc' = FirstPc(t, a)
        /\ disk' = IF aged THEN Aged(disk) ELSE disk
        /\ disk0' = IF aged THEN Aged(disk) ELSE disk
    /\ runs' = runs + 1
    /\ creds_path' = "none"
    /\ creds' = None
    /\ refreshed' = FALSE
    /\ calls' = <<>>
    /\ loc' = NoLoc
    /\ exc' = NoExc
    /\ result' = None
    /\ out' = <<>>
    /\ uncaught' = FALSE
    /\ exitCode' = -1

\* argparse rejects a value outside `choices`: usage message, exit status 2.
UsageError ==
    /\ pc = "usage"
    /\ out' = Append(out, StdErr(<<"usage: invalid choice: ", args.status>>))
    /\ exitCode' = 2
    /\ pc' = "done"
    /\ UNCHANGED <<runs, disk0, disk, tool, fn, args, creds_path, creds,
                   refreshed, calls, loc, exc, result, uncaught>>

(* ------------------- load_credentials (pickled token) ----------------- *)

Exists(f) == f.kind # "absent"

\* get_credentials_path: the name of the file chosen, "none" for None.
GetCredentialsPath(t, d) ==
    IF t = "add_calendar_event.py"
    THEN IF Exists(d.token_file) THEN "token_file" ELSE "none"
    ELSE IF ~Exists(d.token_file) /\ Exists(d.alt_path) THEN "alt_path"
         ELSE IF Exists(d.token_file) THEN "token_file" ELSE "none"

\* creds and creds.expired and creds.refresh_token
NeedsRefresh(c) == IsCreds(c) /\ c.expired /\ c.refresh_token

\* creds.refresh(Request()) on success: a new access token, not expired.
Refresh(c) == CredRec(FALSE, c.refresh_token, c.token + 1)

\* str(creds_path)
PathText(account, path) ==
    CASE path = "token_file" -> TokenFilePath(account)
      [] path = "alt_path" -> AltPath(account)
      [] path = "none" -> NonePath

\* What load_credentials prints when get_credentials_path returned None:
\* add_calendar_event.py prints creds_path itself after "Expected: ".
NoPathLines(t, account, path) ==
    IF t = "add_calendar_event.py"
    THEN <<StdOut(<<"Error: No credentials found for ", account>>),
           StdOut(<<"Expected: ">> \o PathText(account, path))>>
    ELSE <<>>

\* What the except clause of load_credentials prints.
LoadErrorLine(t, account, msg) ==
    IF t = "add_calendar_event.py"
    THEN StdOut(<<"Error loading credentials: ">> \o msg)
    ELSE StdErr(<<"Error loading credentials for ", account, ": ">> \o msg)

\* get_credentials_path, then open + pickle.load.
LoadCredentialsOpen ==
    /\ pc = "load"
    /\ LET path == GetCredentialsPath(tool, disk) IN
        /\ creds_path' = path
        /\ IF path = "none"
           THEN /\ creds' = None
                /\ out' = out \o NoPathLines(tool, args.account, path)
                /\ exc' = exc
                /\ pc' = "loaded"
           ELSE IF disk[path].kind = "corrupt"
           THEN /\ creds' = None
                /\ exc' = Raised("loader", <<"UnpicklingError">>)
                /\ out' = Append(out, LoadErrorLine(tool, args.account,
                                                    <<"UnpicklingError">>))
                /\ pc' = "loaded"
           ELSE /\ creds' = disk[path]
                /\ exc' = exc
                /\ out' = out
                /\ pc' = IF NeedsRefresh(disk[path]) THEN "refresh"
                         ELSE "loaded"
    /\ UNCHANGED <<runs, disk0, disk, tool, fn, args, refreshed, calls, loc,
                   result, uncaught, exitCode>>

\* creds.refresh(Request()): the exchange with the authorization service.
LoadCredentialsRefresh ==
    /\ pc = "refresh"
    /\ calls' = Append(calls, "oauth.refresh")
    /\ \E ok \in BOOLEAN :
        IF ok
        THEN /\ creds' = Refresh(creds)
             /\ refreshed' = TRUE
             /\ exc' = exc
             /\ out' = out
             /\ pc' = "write"
        ELSE /\ creds' = None
             /\ refreshed' = refreshed
             /\ exc' = Raised("loader", <<"RefreshError">>)
             /\ out' = Append(out, LoadErrorLine(tool, args.account,
                                                 <<"RefreshError">>))
             /\ pc' = "loaded"
    /\ UNCHANGED <<runs, disk0, disk, tool, fn, args, creds_path, loc, result,
                   uncaught, exitCode>>

\* A loader that never writes the refreshed record back.
DumpedNowhere(d, path, c, how) == d

\* The file after open(creds_path, 'wb') + pickle.dump(creds, token):
\* written whole, left alone when open fails, cut short when dump fails.
Dumped(d, path, c, how) ==
    CASE how = "ok" -> [d EXCEPT ![path] = c]
      [] how = "open_fails" -> d
      [] how = "dump_fails" -> [d EXCEPT ![path] = Corrupt]

\* with open(creds_path, 'wb') as token: pickle.dump(creds, token); return
LoadCredentialsWrite ==
    /\ pc = "write"
    /\ \E how \in {"ok", "open_fails", "dump_fails"} :
        /\ disk' = Dumped(disk, creds_path, creds, how)
        /\ IF how = "ok"
           THEN /\ creds' = creds
                /\ exc' = exc
                /\ out' = out
           ELSE /\ creds' = None
                /\ exc' = Raised("loader", <<"OSError">>)
                /\ out' = Append(out, LoadErrorLine(tool, args.account,
                                                    <<"OSError">>))
    /\ pc' = "loaded"
    /\ UNCHANGED <<runs, disk0, tool, fn, args, creds_path, refreshed, calls,
                   loc, result, uncaught, exitCode>>

(* --------------------- send_email.py: main, part 1 -------------------- *)

\* An exception nobody catches: traceback, exit status 1.
Crash(where, msg) ==
    /\ exc' = Raised(where, msg)
    /\ uncaught' = TRUE
    /\ exitCode' = 1
    /\ pc' = "done"

\* main: the body comes from --body-file, --body or standard input.
\* open(args.body_file) is outside any try.
ReadBody ==
    /\ pc = "read_body"
    /\ \E readable \in BOOLEAN :
        IF readable
        THEN /\ pc' = "dispatch"
             /\ UNCHANGED <<exc, uncaught, exitCode>>
        ELSE Crash("main", <<"FileNotFoundError">>)
    /\ UNCHANGED <<runs, disk0, disk, tool, fn, args, creds_path, creds,
                   refreshed, calls, loc, result, out>>

\* A main that lets a reply through without --reply-subject.
DispatchAnyReply ==
    /\ pc = "dispatch"
    /\ fn' = IF args.reply_to # NoStr THEN "send_reply" ELSE "send_email"
    /\ pc' = "load"
    /\ UNCHANGED <<runs, disk0, disk, tool, args, creds_path, creds,
                   refreshed, calls, loc, exc, result, uncaught, out,
                   exitCode>>

\* main: --reply-to selects send_reply and needs --reply-subject.
Dispatch ==
    /\ pc = "dispatch"
    /\ IF args.reply_to # NoStr /\ args.reply_subject = <<>>
       THEN /\ out' = Append(out,
                StdOut(<<"Error: --reply-subject required when using --reply-to">>))
            /\ exitCode' = 1
            /\ pc' = "done"
            /\ fn' = fn
       ELSE /\ fn' = IF args.reply_to # NoStr THEN "send_reply"
                     ELSE "send_email"
            /\ pc' = "load"
            /\ UNCHANGED <<out, exitCode>>
    /\ UNCHANGED <<runs, disk0, disk, tool, args, creds_path, creds,
                   refreshed, calls, loc, exc, result, uncaught>>

(* ------------- the functions that use the pickled token --------------- *)

\* The error text of the `if not creds` return.
NoCredsMsg(f, account) ==
    CASE f = "send_email" ->
            <<"No credentials found for ", account, ". Run OAuth setup first.">>
      [] f = "send_designer_notification" ->
            <<"No credentials found for ", account, ". Run OAuth setup first.">>
      [] f = "send_reply" -> <<"No credentials found for ", account>>
      [] f = "add_event" -> <<"No credentials found">>

AfterCreds(f) ==
    CASE f = "send_email" -> "sender"
      [] f = "send_reply" -> "sender"
      [] f = "send_designer_notification" -> "gate"
      [] f = "add_event" -> "route"

\* creds = load_credentials(account); if not creds: return failure
CheckCreds ==
    /\ pc = "loaded"
    /\ IF ~IsCreds(creds)
       THEN /\ result' = Failure(NoCredsMsg(fn, args.account))
            /\ pc' = "returned"
       ELSE /\ result' = result
            /\ pc' = AfterCreds(fn)
    /\ UNCHANGED <<runs, disk0, disk, tool, fn, args, creds_path, creds,
                   refreshed, calls, loc, exc, out, uncaught, exitCode>>

\* except Exception as e: return {'success': False, 'error': str(e)}
Caught(where, msg) ==
    /\ exc' = Raised(where, msg)
    /\ result' = Failure(msg)
    /\ pc' = "returned"

\* sender = from_address, or the address of users().getProfile()
GetSender ==
    /\ pc = "sender"
    /\ IF args.from_address # NoStr
       THEN /\ loc' = [loc EXCEPT !.sender = args.from_address]
            /\ pc' = IF fn = "send_reply" THEN "thread" ELSE "gate"
            /\ UNCHANGED <<calls, exc, result>>
       ELSE /\ calls' = Append(calls, "users.getProfile")
            /\ \E ok \in BOOLEAN :
                IF ok
                THEN /\ loc' = [loc EXCEPT !.sender = args.account]
                     /\ pc' = IF fn = "send_reply" THEN "thread" ELSE "gate"
                     /\ UNCHANGED <<exc, result>>
                ELSE /\ Caught("remote", <<"HttpError">>)
                     /\ loc' = loc
    /\ UNCHANGED <<runs, disk0, disk, tool, fn, args, creds_path, creds,
                   refreshed, out, uncaught, exitCode>>

\* send_reply: thread = service.users().threads().get(...).execute()
GetThread ==
    /\ pc = "thread"
    /\ calls' = Append(calls, "threads.get")
    /\ \E ok \in BOOLEAN :
        IF ok
        THEN /\ pc' = "build"
             /\ UNCHANGED <<exc, result>>
        ELSE Caught("remote", <<"HttpError">>)
    /\ UNCHANGED <<runs, disk0, disk, tool, fn, args, creds_path, creds,
                   refreshed, loc, out, uncaught, exitCode>>

\* str.replace(old, ''): every occurrence of the token is removed.
RECURSIVE RemoveAll(_, _)
RemoveAll(s, tok) ==
    IF s = <<>> THEN <<>>
    ELSE IF Head(s) = tok THEN RemoveAll(Tail(s), tok)
    ELSE <<Head(s)>> \o RemoveAll(Tail(s), tok)

\* build_designer_email: subject = f"New Booking - {client} - {date}"
DesignerSubject(client, date) == <<"New Booking - ", client, " - ", date>>

\* The subject the function works with: its subject parameter, or the one
\* build_designer_email returns.
SubjectOf(f, a) ==
    CASE f = "send_email" -> a.subject
      [] f = "send_reply" -> a.reply_subject
      [] f = "send_designer_notification" -> DesignerSubject(a.client, a.date)

\* message['subject']
SubjectHeader(f, a) ==
    IF f = "send_reply"
    THEN <<"Re: ">> \o RemoveAll(SubjectOf(f, a), "Re: ")
    ELSE SubjectOf(f, a)

\* The MIME message and the request body made from it.
BuiltMessage(f, a, sender) ==
    [kind |-> "message",
     to |-> IF f = "send_designer_notification" THEN DESIGNER_EMAIL ELSE a.to,
     from |-> IF f = "send_designer_notification" THEN FROM_ADDRESS
              ELSE sender,
     subject |-> SubjectHeader(f, a),
     threadId |-> IF f = "send_designer_notification" THEN NoStr
                  ELSE a.reply_to]

\* Create MIME message (before the gate in send_reply, after it elsewhere).
BuildMessage ==
    /\ pc = "build"
    /\ loc' = [loc EXCEPT !.msg = BuiltMessage(fn, args, loc.sender)]
    /\ pc' = IF fn = "send_reply" THEN "gate" ELSE "send"
    /\ UNCHANGED <<runs, disk0, disk, tool, fn, args, creds_path, creds,
                   refreshed, calls, exc, result, out, uncaught, exitCode>>

(* ------------------------- confirmation gate -------------------------- *)

\* Lines an operator may type.
Inputs == {"yes", "y", "send", "draft", " YES ", "Y", "no", "", "yes please",
           "n"}

\* input(...).strip().lower()
StripLower(r) ==
    CASE r = " YES " -> "yes"
      [] r = "Y" -> "y"
      [] OTHER -> r

\* response not in ['yes', 'y', 'send', 'draft']
Accepted == {"yes", "y", "send", "draft"}

\* A gate that takes any answer beginning with an accepted word.
ConfirmsByPrefix(r) == StripLower(r) \in Accepted \cup {"yes please"}

Confirms(r) == StripLower(r) \in Accepted

AfterGate(f) == IF f = "send_reply" THEN "send" ELSE "build"

\* auto_confirm: no preview, no prompt.
GateSkipped ==
    /\ pc = "gate"
    /\ args.yes
    /\ loc' = [loc EXCEPT !.gate = "skipped"]
    /\ pc' = AfterGate(fn)
    /\ UNCHANGED <<runs, disk0, disk, tool, fn, args, creds_path, creds,
                   refreshed, calls, exc, result, out, uncaught, exitCode>>

\* preview_email(...), then input(): a line, or EOFError on a closed stdin.
GatePrompt ==
    /\ pc = "gate"
    /\ ~args.yes
    /\ out' = Append(out, StdOut(<<"Subject: ">> \o SubjectOf(fn, args)))
    /\ \E r \in Inputs \cup {"<EOF>"} :
        IF r = "<EOF>"
        THEN /\ Caught("input", <<"EOF when reading a line">>)
             /\ loc' = [loc EXCEPT !.preview = SubjectOf(fn, args)]
        ELSE IF ~Confirms(r)
        THEN /\ loc' = [loc EXCEPT !.preview = SubjectOf(fn, args),
                                   !.response = r, !.gate = "cancelled"]
             /\ result' = Cancelled
             /\ pc' = "returned"
             /\ exc' = exc
        ELSE /\ loc' = [loc EXCEPT !.preview = SubjectOf(fn, args),
                                   !.response = r, !.gate = "passed"]
             /\ pc' = AfterGate(fn)
             /\ UNCHANGED <<exc, result>>
    /\ UNCHANGED <<runs, disk0, disk, tool, fn, args, creds_path, creds,
                   refreshed, calls, uncaught, exitCode>>

(* --------------------------- send / draft ----------------------------- *)

\* The provider's answer to drafts.create / messages.send.
ProviderId == "id-1"
ProviderThread == "thread-9"

\* The success record of send_email.
SendEmailResult(a, sender) ==
    IF a.draft
    THEN [success |-> TRUE, draft_id |-> ProviderId, sender |-> sender,
          to |-> a.to, subject |-> a.subject, is_draft |-> TRUE]
    ELSE [success |-> TRUE, message_id |-> ProviderId,
          thread_id |-> ProviderThread, sender |-> sender, to |-> a.to,
          subject |-> a.subject]

\* The success record of send_reply.
SendReplyResult(a, sender) ==
    IF a.draft
    THEN [success |-> TRUE, draft_id |-> ProviderId,
          thread_id |-> a.reply_to, sender |-> sender, to |-> a.to,
          subject |-> a.reply_subject, is_draft |-> TRUE]
    ELSE [success |-> TRUE, message_id |-> ProviderId,
          thread_id |-> ProviderThread, sender |-> sender, to |-> a.to,
          subject |-> a.reply_subject]

\* The success record of send_designer_notification.
NotifyResult(a) ==
    IF a.draft
    THEN [success |-> TRUE, draft_id |-> ProviderId, sender |-> FROM_ADDRESS,
          to |-> DESIGNER_EMAIL,
          subject |-> DesignerSubject(a.client, a.date), is_draft |-> TRUE,
          client |-> a.client, poc |-> a.poc]
    ELSE [success |-> TRUE, message_id |-> ProviderId,
          thread_id |-> ProviderThread, sender |-> FROM_ADDRESS,
          to |-> DESIGNER_EMAIL,
          subject |-> DesignerSubject(a.client, a.date),
          client |-> a.client, poc |-> a.poc]

SendResult(f, a, sender) ==
    CASE f = "send_email" -> SendEmailResult(a, sender)
      [] f = "send_reply" -> SendReplyResult(a, sender)
      [] f = "send_designer_notification" -> NotifyResult(a)

\* A function that sends whatever the draft flag says.
SendCallAlwaysSends(a) == "messages.send"

\* The call made with the message: drafts().create or messages().send.
SendCall(a) == IF a.draft THEN "drafts.create" ELSE "messages.send"

Send ==
    /\ pc = "send"
    /\ calls' = Append(calls, SendCall(args))
    /\ \E ok \in BOOLEAN :
        IF ok
        THEN /\ result' = SendResult(fn, args, loc.sender)
             /\ pc' = "returned"
             /\ exc' = exc
        ELSE Caught("remote", <<"HttpError">>)
    /\ UNCHANGED <<runs, disk0, disk, tool, fn, args, creds_path, creds,
                   refreshed, loc, out, uncaught, exitCode>>

(* ------------------------------ add_event ----------------------------- *)

\* str.upper()
Upper(x) ==
    CASE x = "tbc" -> "TBC"
      [] x = "live" -> "LIVE"
      [] OTHER -> x

\* Routing that compares the status without upper-casing it.
RoutingCaseSensitive(status) ==
    IF status = "TBC"
    THEN [calendar_id |-> CALENDAR_ADMIN, color_id |-> "3",
          title_prefix |-> "TBC - "]
    ELSE [calendar_id |-> CALENDAR_MAIN, color_id |-> NoStr,
          title_prefix |-> ""]

\* Determine calendar based on status.
Routing(status) ==
    IF Upper(status) = "TBC"
    THEN [calendar_id |-> CALENDAR_ADMIN, color_id |-> "3",
          title_prefix |-> "TBC - "]
    ELSE [calendar_id |-> CALENDAR_MAIN, color_id |-> NoStr,
          title_prefix |-> ""]

Route ==
    /\ pc = "route"
    /\ loc' = [loc EXCEPT
                 !.calendar_id = Routing(args.status).calendar_id,
                 !.color_id = Routing(args.status).color_id,
                 !.title_prefix = Routing(args.status).title_prefix]
    /\ pc' = "event"
    /\ UNCHANGED <<runs, disk0, disk, tool, fn, args, creds_path, creds,
                   refreshed, calls, exc, result, out, uncaught, exitCode>>

\* The names in scope where the title is formatted: the parameters of
\* add_event, its locals so far, and the module's globals.
AddEventScope ==
    {"account", "company", "poc", "event_type", "date", "start_time",
     "end_time", "location", "email_id", "description", "status", "creds",
     "service", "calendar_id", "color_id", "title_prefix",
     "CALENDAR_ADMIN", "CALENDAR_MAIN", "DEFAULT_ACCOUNT"}

\* The names the f-string of the title evaluates, in order.
TitleNames == <<"title_prefix", "company", "POC", "event_type">>

\* The first name of the f-string that is not in scope, "" if all are.
UndefinedName(names, scope) ==
    IF \A i \in DOMAIN names : names[i] \in scope THEN ""
    ELSE names[CHOOSE i \in DOMAIN names :
                 /\ names[i] \notin scope
                 /\ \A j \in 1..(i - 1) : names[j] \in scope]

\* str(NameError)
NameErrorMsg(name) == <<"name '", name, "' is not defined">>

\* [TBC - ]Company - POC (TYPE)
Title(prefix, company, poc, event_type) ==
    <<prefix, company, " - ", poc, " (", Upper(event_type), ")">>

\* The success record of add_event.
EventResult(a, calendar_id, title) ==
    [success |-> TRUE, event_id |-> ProviderId, calendar_id |-> calendar_id,
     title |-> title, html_link |-> "https://calendar/event",
     status |-> a.status]

\* The rest of the try block: format the title, build the event body and
\* insert it.  Formatting the title raises NameError when a name it uses is
\* not in scope; nothing after it runs then.
AddEventBody ==
    /\ pc = "event"
    /\ LET missing == UndefinedName(TitleNames, AddEventScope)
           title == Title(loc.title_prefix, args.company, args.poc, args.type)
       IN  IF missing # ""
           THEN /\ Caught("prepare", NameErrorMsg(missing))
                /\ UNCHANGED <<calls, loc>>
           ELSE /\ loc' = [loc EXCEPT !.title = title]
                /\ calls' = Append(calls, "events.insert")
                /\ \E ok \in BOOLEAN :
                    IF ok
                    THEN /\ result' = EventResult(args, loc.calendar_id, title)
                         /\ pc' = "returned"
                         /\ exc' = exc
                    ELSE Caught("remote", <<"HttpError">>)
    /\ UNCHANGED <<runs, disk0, disk, tool, fn, args, creds_path, creds,
                   refreshed, out, uncaught, exitCode>>

(* ------------------------- main: output, exit ------------------------- *)

\* The human-readable lines of send_email.py and notify_designer.py.
SendLines(t, r) ==
    IF Get(r, "success")
    THEN <<StdOut(IF Get(r, "is_draft") THEN <<"Draft saved">>
                  ELSE <<"Sent successfully">>),
           StdOut(<<"   Subject: ">> \o r.subject)>>
    ELSE IF Get(r, "preview_only")
    THEN <<StdOut(IF t = "send_email.py"
                  THEN <<"Preview shown. Email not saved/sent.">>
                  ELSE <<"Preview shown. Notification not sent.">>)>>
    ELSE <<StdOut(<<"Failed: ">> \o r.error)>>

\* The human-readable lines of add_calendar_event.py.
EventLines(r) ==
    IF Get(r, "success")
    THEN <<StdOut(<<"Event created successfully!">>),
           StdOut(<<"   Title: ">> \o r.title),
           StdOut(<<"   Calendar: ",
                    IF r.status = "TBC" THEN "Administration (Purple)"
                    ELSE "Main">>)>>
    ELSE <<StdOut(<<"Failed: ">> \o r.error)>>

HumanLines(t, r) ==
    IF t = "add_calendar_event.py" THEN EventLines(r) ELSE SendLines(t, r)

\* sys.exit(0 if result.get('success') else 1)
ExitCodeOf(r) == IF Get(r, "success") THEN 0 ELSE 1

\* main of the three scripts that print a result record.
Output ==
    /\ pc = "returned"
    /\ ~(tool = "add_calendar_event.py" /\ args.entry = "call")
    /\ out' = out \o (IF args.json THEN <<JsonOut(result)>>
                      ELSE HumanLines(tool, result))
    /\ exitCode' = ExitCodeOf(result)
    /\ pc' = "done"
    /\ UNCHANGED <<runs, disk0, disk, tool, fn, args, creds_path, creds,
                   refreshed, calls, loc, exc, result, uncaught>>

\* add_event called as a function: the record goes back to the caller.
ReturnToCaller ==
    /\ pc = "returned"
    /\ tool = "add_calendar_event.py" /\ args.entry = "call"
    /\ pc' = "done"
    /\ UNCHANGED <<runs, disk0, disk, tool, fn, args, creds_path, creds,
                   refreshed, calls, loc, exc, result, out, uncaught,
                   exitCode>>

(* --------------------------- capture_email.py ------------------------- *)

\* A validity test that never holds, so every run authorizes again.
ValidNever(c) == FALSE

\* creds.valid
Valid(c) == IsCreds(c) /\ ~c.expired

\* The record InstalledAppFlow.run_local_server returns: a new grant.
Granted(old) ==
    CredRec(FALSE, TRUE, IF IsCreds(old) THEN old.token + 1 ELSE 1)

\* get_credentials: Credentials.from_authorized_user_file(token.json).
\* Nothing in main catches what get_credentials raises.
GetCredentials ==
    /\ pc = "get_credentials"
    /\ fn' = "get_credentials"
    /\ IF disk.token_json.kind = "corrupt"
       THEN /\ Crash("loader", <<"ValueError">>)
            /\ creds' = creds
       ELSE /\ creds' = IF Exists(disk.token_json) THEN disk.token_json
                        ELSE None
            /\ pc' = IF Valid(disk.token_json) THEN "list"
                     ELSE IF NeedsRefresh(disk.token_json) THEN "cap_refresh"
                     ELSE "flow"
            /\ UNCHANGED <<exc, uncaught, exitCode>>
    /\ UNCHANGED <<runs, disk0, disk, tool, args, creds_path, refreshed,
                   calls, loc, result, out>>

\* get_credentials: creds.refresh(Request())
CaptureRefresh ==
    /\ pc = "cap_refresh"
    /\ calls' = Append(calls, "oauth.refresh")
    /\ \E ok \in BOOLEAN :
        IF ok
        THEN /\ creds' = Refresh(creds)
             /\ refreshed' = TRUE
             /\ pc' = "cap_write"
             /\ UNCHANGED <<exc, uncaught, exitCode>>
        ELSE /\ Crash("loader", <<"RefreshError">>)
             /\ UNCHANGED <<creds, refreshed>>
    /\ UNCHANGED <<runs, disk0, disk, tool, fn, args, creds_path, loc, result,
                   out>>

\* get_credentials: no usable token, so the interactive authorization flow
\* runs, which needs credentials.json.
CaptureFlow ==
    /\ pc = "flow"
    /\ IF ~Exists(disk.credentials_json)
       THEN /\ out' = out \o <<StdOut(<<"Error: credentials.json not found">>),
                StdOut(<<"Please download credentials from Google Cloud Console">>)>>
            /\ exitCode' = 1
            /\ pc' = "done"
            /\ UNCHANGED <<calls, creds, exc, uncaught>>
       ELSE /\ calls' = Append(calls, "oauth.flow")
            /\ out' = out
            /\ \E ok \in BOOLEAN :
                IF ok
                THEN /\ creds' = Granted(creds)
                     /\ pc' = "cap_write"
                     /\ UNCHANGED <<exc, uncaught, exitCode>>
                ELSE /\ Crash("loader", <<"AccessDeniedError">>)
                     /\ creds' = creds
    /\ UNCHANGED <<runs, disk0, disk, tool, fn, args, creds_path, refreshed,
                   loc, result>>

\* get_credentials: with open(token_path, 'w'): token.write(creds.to_json())
CaptureWriteToken ==
    /\ pc = "cap_write"
    /\ \E ok \in BOOLEAN :
        IF ok
        THEN /\ disk' = [disk EXCEPT !.token_json = creds]
             /\ pc' = "list"
             /\ UNCHANGED <<exc, uncaught, exitCode>>
        ELSE /\ Crash("loader", <<"OSError">>)
             /\ disk' = disk
    /\ UNCHANGED <<runs, disk0, tool, fn, args, creds_path, creds, refreshed,
                   calls, loc, result, out>>

\* Message ids and thread ids of the mailbox.
Mailbox ==
    {[id |-> <<1, 1, 1, 1, 1, 1, 1, 1, 1>>, threadId |-> "T1"],
     [id |-> <<1, 1, 1, 1, 1, 1, 1, 1, 2>>, threadId |-> "T1"],
     [id |-> <<2, 2, 2, 2, 2, 2, 2, 2, 2>>, threadId |-> "T2"]}

Distinct(q) == \A i, j \in DOMAIN q : i # j => q[i] # q[j]

RECURSIVE SeqsUpTo(_, _)
\* The sequences of distinct elements of S of length at most n.
SeqsUpTo(S, n) ==
    IF n = 0 THEN {<<>>}
    ELSE LET shorter == SeqsUpTo(S, n - 1)
             longest == {p \in shorter : Len(p) = n - 1}
             grown == {Append(p, m) : p \in longest, m \in S}
         IN  shorter \cup {q \in grown : Distinct(q)}

\* What messages().list may answer: results.get('messages', []).
QueryResults == SeqsUpTo(Mailbox, MaxFound)

\* capture_email: results = service.users().messages().list(...).execute()
CaptureList ==
    /\ pc = "list"
    /\ fn' = "capture_email"
    /\ calls' = Append(calls, "messages.list")
    /\ \E ok \in BOOLEAN :
        IF ~ok
        THEN /\ Crash("remote", <<"HttpError">>)
             /\ UNCHANGED <<loc, out>>
        ELSE \E found \in QueryResults :
             IF found = <<>>
             THEN /\ out' = Append(out,
                        StdOut(<<"No emails found for query: ", args.query>>))
                  /\ exitCode' = 0
                  /\ pc' = "done"
                  /\ UNCHANGED <<loc, exc, uncaught>>
             ELSE /\ loc' = [loc EXCEPT !.messages = found]
                  /\ pc' = "get"
                  /\ UNCHANGED <<out, exc, uncaught, exitCode>>
    /\ UNCHANGED <<runs, disk0, disk, tool, args, creds_path, creds,
                   refreshed, result>>

\* email_data of one message.
EmailData(m, query, now) ==
    [captured_at |-> now, message_id |-> m.id, thread_id |-> m.threadId,
     search_query |-> query]

\* capture_email: one turn of the loop, messages().get(...).execute()
CaptureGet ==
    /\ pc = "get"
    /\ Len(loc.captured) < Len(loc.messages)
    /\ calls' = Append(calls, "messages.get")
    /\ \E ok \in BOOLEAN :
        IF ~ok
        THEN /\ Crash("remote", <<"HttpError">>)
             /\ loc' = loc
        ELSE /\ loc' = [loc EXCEPT !.captured =
                   Append(@, EmailData(loc.messages[Len(loc.captured) + 1],
                                       args.query, runs))]
             /\ pc' = IF Len(loc.captured) + 1 = Len(loc.messages)
                      THEN "save" ELSE "get"
             /\ UNCHANGED <<exc, uncaught, exitCode>>
    /\ UNCHANGED <<runs, disk0, disk, tool, fn, args, creds_path, creds,
                   refreshed, result, out>>

\* key = f"{email['thread_id']}_{email['message_id'][:8]}"
CacheKey(email) ==
    <<email.thread_id, "_",
      SubSeq(email.message_id, 1,
             IF Len(email.message_id) < KeyPrefixLen
             THEN Len(email.message_id) ELSE KeyPrefixLen)>>

\* A Python dict: its entries [key, value] in insertion order, keys unique.
EmptyDict == <<>>

HasKey(d, k) == \E i \in DOMAIN d : d[i].key = k

\* d[k], for a key the dict holds.
Lookup(d, k) == d[CHOOSE i \in DOMAIN d : d[i].key = k].value

\* d[k] = v: the value is replaced where the key stands, or a new entry is
\* added at the end.
DictSet(d, k, v) ==
    IF HasKey(d, k)
    THEN [i \in DOMAIN d |->
            IF d[i].key = k THEN [key |-> k, value |-> v] ELSE d[i]]
    ELSE Append(d, [key |-> k, value |-> v])

\* json.dump(cache_data, f, ...): one member per entry, in dict order.
JsonDump(d) == [i \in DOMAIN d |-> <<d[i].key, d[i].value>>]

RECURSIVE JsonLoadInto(_, _)
\* json.load builds the dict member by member; a repeated key keeps the
\* last value.
JsonLoadInto(d, members) ==
    IF members = <<>> THEN d
    ELSE JsonLoadInto(DictSet(d, Head(members)[1], Head(members)[2]),
                      Tail(members))

JsonLoad(members) == JsonLoadInto(EmptyDict, members)

\* cache_data after the load: the parsed object, or {} when the file is
\* missing or json.load raised.  (A parsed non-object is neither: see
\* CaptureSave.)
LoadedCache(f) == IF f.kind = "object" THEN JsonLoad(f.data) ELSE EmptyDict

RECURSIVE Merged(_, _)
\* for email in captured: cache_data[key] = email
Merged(data, captured) ==
    IF captured = <<>> THEN data
    ELSE Merged(DictSet(data, CacheKey(Head(captured)), Head(captured)),
                Tail(captured))

\* capture_email: the save block, the output and the return to main, which
\* ends without a call of sys.exit.  A cache that parses to a JSON array
\* makes cache_data[key] = email raise TypeError.
CaptureSave ==
    /\ pc = "save"
    /\ IF args.save /\ disk.cache.kind = "array"
       THEN /\ Crash("save", <<"TypeError">>)
            /\ UNCHANGED <<disk, out>>
       ELSE /\ disk' = IF args.save
                       THEN [disk EXCEPT !.cache =
                               CacheObject(JsonDump(
                                   Merged(LoadedCache(disk.cache),
                                          loc.captured)))]
                       ELSE disk
            /\ out' = out \o
                 (IF args.save /\ ~args.json
                  THEN <<StdOut(<<"Saved to cache">>)>> ELSE <<>>) \o
                 (IF args.json THEN <<JsonArrayOut(loc.captured)>>
                  ELSE <<StdOut(<<"EMAIL summary">>)>>)
            /\ exitCode' = 0
            /\ pc' = "done"
            /\ UNCHANGED <<exc, uncaught>>
    /\ UNCHANGED <<runs, disk0, tool, fn, args, creds_path, creds, refreshed,
                   calls, loc, result>>

\* The process is gone: only the files remain.
Exit ==
    /\ pc = "done"
    /\ pc' = "idle"
    /\ tool' = "none"
    /\ fn' = "none"
    /\ args' = [none |-> TRUE]
    /\ creds_path' = "none"
    /\ creds' = None
    /\ refreshed' = FALSE
    /\ calls' = <<>>
    /\ loc' = NoLoc
    /\ exc' = NoExc
    /\ result' = None
    /\ out' = <<>>
    /\ uncaught' = FALSE
    /\ exitCode' = -1
    /\ UNCHANGED <<runs, disk>>
    /\ disk0' = disk

(* ------------------------------- Next --------------------------------- *)

Next ==
    \/ Start
    \/ UsageError
    \/ LoadCredentialsOpen
    \/ LoadCredentialsRefresh
    \/ LoadCredentialsWrite
    \/ ReadBody
    \/ Dispatch
    \/ CheckCreds
    \/ GetSender
    \/ GetThread
    \/ BuildMessage
    \/ GateSkipped
    \/ GatePrompt
    \/ Send
    \/ Route
    \/ AddEventBody
    \/ Output
    \/ ReturnToCaller
    \/ GetCredentials
    \/ CaptureRefresh
    \/ CaptureFlow
    \/ CaptureWriteToken
    \/ CaptureList
    \/ CaptureGet
    \/ CaptureSave
    \/ Exit

Spec == Init /\ [][Next]_vars

(* ------------------------------ properties ---------------------------- *)

PickleFns ==
    {"send_email", "send_reply", "send_designer_notification", "add_event"}

GatedFns == {"send_email", "send_reply", "send_designer_notification"}

\* load_credentials has returned to the function that called it.
LoaderReturned ==
    /\ fn \in PickleFns
    /\ pc \in {"loaded", "sender", "thread", "build", "gate", "send", "route",
               "event", "returned", "done"}

\* The function main called has returned its result record.
FnReturned == fn \in PickleFns /\ pc \in {"returned", "done"} /\ result # None

\* The credential record the process found in the file its loader reads.
Stored ==
    IF tool = "capture_email.py" THEN disk0.token_json
    ELSE IF GetCredentialsPath(tool, disk0) = "none" THEN Absent
    ELSE disk0[GetCredentialsPath(tool, disk0)]

CredFiles(d) == <<d.token_file, d.alt_path, d.token_json>>

PrimaryCalls ==
    {"drafts.create", "messages.send", "events.insert", "messages.list",
     "messages.get"}

NumPrimary == Cardinality({i \in DOMAIN calls : calls[i] \in PrimaryCalls})

\* C1: when auto_confirm is false and the operator's answer, trimmed and
\* lower-cased, is none of 'yes', 'y', 'send', 'draft', the function returns
\* the cancelled result (preview_only true, success false) and neither
\* messages.send nor drafts.create is invoked on that run.
C1_CancelNeverSends ==
    (/\ fn \in GatedFns
     /\ ~args.yes
     /\ loc.response # NoStr
     /\ StripLower(loc.response) \notin {"yes", "y", "send", "draft"})
    => /\ Get(result, "preview_only")
       /\ ~Get(result, "success")
       /\ ~Contains(calls, "messages.send")
       /\ ~Contains(calls, "drafts.create")

\* A reply cancelled with "no" after both lookups were made.
C1_Witness ==
    /\ pc = "done"
    /\ fn = "send_reply"
    /\ loc.response = "no"
    /\ Contains(calls, "threads.get")
    /\ result = Cancelled
    /\ exitCode = 1

\* C2: in every tool an exception raised by a remote call or while the
\* request is prepared becomes a failure result carrying the exception's
\* message, and no exception reaches the process boundary uncaught.
C2_ExceptionsBecomeFailures ==
    /\ ~uncaught
    /\ (exc.where \in {"remote", "prepare"} /\ pc \in {"returned", "done"})
       => result = Failure(exc.msg)

\* The operation of the run did what it was asked to do.
Succeeded ==
    IF tool = "capture_email.py"
    THEN /\ ~uncaught
         /\ loc.captured # <<>>
         /\ Len(loc.captured) = Len(loc.messages)
    ELSE Get(result, "success")

\* C3: for every tool and every run whose command line was accepted, the
\* exit code is 0 exactly when the operation succeeded and 1 on any failure,
\* a capture query that fails or finds nothing included.
C3_ExitCodeReflectsOutcome ==
    (pc = "done" /\ exitCode # -1 /\ FirstPc(tool, args) # "usage")
    => exitCode = IF Succeeded THEN 0 ELSE 1

\* add_event has chosen the calendar, the colour and the prefix.
Routed == fn = "add_event" /\ pc \in {"event", "returned", "done"}
          /\ loc.calendar_id # NoStr

\* C4 as stated: every status other than 'CONFIRMED' is routed to the
\* administration calendar with colorId '3' and the prefix 'TBC - ', and
\* 'CONFIRMED' to the main calendar with no colorId and no prefix.
C4_AsStated ==
    Routed =>
        IF args.status # "CONFIRMED"
        THEN /\ loc.calendar_id = CALENDAR_ADMIN
             /\ loc.color_id = "3"
             /\ loc.title_prefix = "TBC - "
        ELSE /\ loc.calendar_id = CALENDAR_MAIN
             /\ loc.color_id = NoStr
             /\ loc.title_prefix = ""

\* C4 (amended): the routing add_event selects is a function of the status
\* alone: a status that upper-cases to 'TBC' selects the administration
\* calendar, colorId '3' and the prefix 'TBC - '; every other status,
\* 'CONFIRMED' included, selects the main calendar, no colorId and an empty
\* prefix.
C4_RoutingByTBC ==
    Routed =>
        IF args.status \in {"TBC", "tbc"}
        THEN /\ loc.calendar_id = CALENDAR_ADMIN
             /\ loc.color_id = "3"
             /\ loc.title_prefix = "TBC - "
        ELSE /\ loc.calendar_id = CALENDAR_MAIN
             /\ loc.color_id = NoStr
             /\ loc.title_prefix = ""

\* A status that is neither literal, routed to the main calendar; and a
\* lower-case 'tbc' is possible too.
C4_Witness ==
    /\ Routed
    /\ args.status = "PENDING"
    /\ loc.calendar_id = CALENDAR_MAIN
    /\ loc.title_prefix = ""

\* C5: add_event with loadable credentials and no failure of the remote
\* insert issues exactly one events.insert and returns a success record
\* with the title '<prefix><company> - <poc> (<TYPE>)', the routed calendar
\* and the provider's event id.
C5_AddEventSucceeds ==
    (/\ fn = "add_event"
     /\ pc \in {"returned", "done"}
     /\ IsCreds(creds)
     /\ exc.where # "remote")
    => /\ Get(result, "success")
       /\ Count(calls, "events.insert") = 1
       /\ result.title = <<loc.title_prefix, args.company, " - ", args.poc,
                           " (",
                           IF args.type = "live" THEN "LIVE" ELSE "EVENT",
                           ")">>
       /\ result.calendar_id = loc.calendar_id
       /\ result.event_id = ProviderId

\* The text names the path of the token file of the account.
NamesTokenPath(text) == HasSubSeq(text, TokenFilePath(args.account))

\* C6: loading credentials for an account with no stored file yields a
\* failure whose message (in the result, or printed) names the expected
\* file path, issues no remote call and raises no uncaught exception.
C6_MissingFileNamesPath ==
    (FnReturned /\ creds_path = "none" /\ ~Exists(disk0.token_file))
    => /\ ~Get(result, "success")
       /\ \/ NamesTokenPath(result.error)
          \/ \E i \in DOMAIN out :
                "text" \in DOMAIN out[i] /\ NamesTokenPath(out[i].text)
       /\ calls = <<>>
       /\ ~uncaught

\* C7: when load_credentials returns a record and the stored record was
\* expired with a refresh token, a refresh exchange was performed and the
\* record returned is the refreshed one; and whenever it returns a record
\* after a refresh, the file it read holds that refreshed record.
C7_RefreshPersistedBeforeReturn ==
    (LoaderReturned /\ IsCreds(creds))
    => /\ (IsCreds(Stored) /\ Stored.expired /\ Stored.refresh_token)
          => /\ refreshed
             /\ Contains(calls, "oauth.refresh")
             /\ ~creds.expired
             /\ creds.token = Stored.token + 1
       /\ refreshed => disk[creds_path] = creds

\* The loader has just returned a refreshed record that is on disk.
C7_Witness ==
    /\ refreshed
    /\ pc = "loaded"
    /\ fn = "send_email"
    /\ IsCreds(creds)
    /\ disk0[creds_path] # creds
    /\ disk[creds_path] = creds

\* C8: a record the loader returns is valid, or was made valid by a
\* refresh; when the stored record is expired without a refresh token the
\* operation fails and no send/create/insert call is made with it.
C8_ReturnedRecordUsable ==
    /\ (LoaderReturned /\ IsCreds(creds)) => ~creds.expired
    /\ (tool = "capture_email.py" /\ pc \in {"list", "get", "save"})
       => (IsCreds(creds) /\ ~creds.expired)
    /\ (\E c \in {"drafts.create", "messages.send", "events.insert"} :
            Contains(calls, c))
       => (IsCreds(creds) /\ ~creds.expired)
    /\ (FnReturned /\ IsCreds(Stored) /\ Stored.expired
        /\ ~Stored.refresh_token)
       => ~Get(result, "success")

\* C9 as stated: a credential file differs from what the process found only
\* after a successful refresh.
C9_AsStated ==
    (pc # "idle" /\ CredFiles(disk) # CredFiles(disk0)) => refreshed

\* C9 (amended): a credential file is written only after a successful
\* refresh or, in the capture tool, after the interactive authorization
\* flow has granted a new record; a stored record that is present and valid
\* is returned unchanged and no file is written; when the stored record is
\* corrupt, or the refresh exchange fails, the files are left unchanged.
C9_WrittenOnlyAfterRefreshOrGrant ==
    pc # "idle" =>
        /\ CredFiles(disk) # CredFiles(disk0)
           => \/ refreshed
              \/ tool = "capture_email.py" /\ Contains(calls, "oauth.flow")
        /\ (IsCreds(Stored) /\ ~Stored.expired)
           => /\ CredFiles(disk) = CredFiles(disk0)
              /\ IsCreds(creds) => creds = Stored
        /\ Stored = Corrupt => CredFiles(disk) = CredFiles(disk0)
        /\ (Contains(calls, "oauth.refresh") /\ ~refreshed)
           => CredFiles(disk) = CredFiles(disk0)

\* A valid token.json read by the capture tool and left as it was, while a
\* query was made with it.
C9_Witness ==
    /\ tool = "capture_email.py"
    /\ pc = "done"
    /\ IsCreds(Stored)
    /\ ~Stored.expired
    /\ creds = Stored
    /\ disk.token_json = disk0.token_json
    /\ Contains(calls, "messages.list")

\* The run got past credential loading and the confirmation gate.
PastGate ==
    \/ fn \in GatedFns /\ loc.gate \in {"skipped", "passed"}
    \/ fn = "add_event" /\ IsCreds(creds) /\ result # None
    \/ tool = "capture_email.py" /\ Contains(calls, "messages.list")

\* C10: a run that gets past credential loading and the gate issues exactly
\* one primary remote call (create/send/insert/list/get), and a failed
\* remote call surfaces at once as a failure result.
C10_OnePrimaryCall ==
    (pc = "done" /\ PastGate)
    => /\ NumPrimary = 1
       /\ exc.where = "remote" => result = Failure(exc.msg)

\* C11: in send_email, send_reply and send_designer_notification, with the
\* draft flag set messages.send is never invoked, drafts.create is the only
\* call that changes anything at the provider and is made at most once, and
\* a success result carries is_draft true and the draft id; without the
\* flag drafts.create is never invoked.
C11_DraftOnlySaves ==
    fn \in GatedFns =>
        /\ args.draft =>
            /\ ~Contains(calls, "messages.send")
            /\ Count(calls, "drafts.create") <= 1
            /\ Get(result, "success") =>
                /\ Count(calls, "drafts.create") = 1
                /\ Get(result, "is_draft")
                /\ result.draft_id = ProviderId
        /\ ~args.draft =>
            /\ ~Contains(calls, "drafts.create")
            /\ ~Get(result, "is_draft")

\* A reply saved as a draft after the operator confirmed.
C11_Witness ==
    /\ pc = "done"
    /\ fn = "send_reply"
    /\ args.draft
    /\ loc.gate = "passed"
    /\ Get(result, "success")
    /\ Get(result, "is_draft")
    /\ calls[Len(calls)] = "drafts.create"

\* The subject with one leading "Re: " taken away, the rest untouched.
StripPrefixOnce(s) == IF Len(s) > 0 /\ s[1] = "Re: " THEN Tail(s) ELSE s

\* C12: the Subject header of a reply built by send_reply is "Re: " followed
\* by the supplied subject with one leading "Re: " stripped; later
\* occurrences of "Re: " inside the subject are left as they are.
C12_AsStated ==
    (fn = "send_reply" /\ loc.msg # None) =>
        loc.msg.subject = <<"Re: ">> \o StripPrefixOnce(args.reply_subject)

\* A run of the send tool asked for a threaded reply with no reply subject.
ReplyWithoutSubject ==
    /\ tool = "send_email.py"
    /\ args.reply_to # NoStr
    /\ args.reply_subject = <<>>

RejectionLine ==
    StdOut(<<"Error: --reply-subject required when using --reply-to">>)

\* C13 as stated: a run asked for a threaded reply with no reply subject,
\* once it has ended without a crash, has looked up the referenced thread
\* (unless the reply function returned a failure record before the lookup).
C13_AsStated ==
    (ReplyWithoutSubject /\ pc = "done" /\ ~uncaught) =>
        \/ Contains(calls, "threads.get")
        \/ (result # None /\ ~Get(result, "success"))

\* C13 amended: a reply with no reply subject is rejected (error line, exit
\* status 1, no remote call, no message built); a reply that builds a
\* message was given a reply subject and has looked up the thread before,
\* and a reply is sent or saved only after the message was built.
C13_ReplyNeedsSubject ==
    /\ ReplyWithoutSubject =>
        /\ calls = <<>>
        /\ loc.msg = None
        /\ result = None
        /\ fn # "send_reply"
        /\ (pc = "done" /\ ~uncaught) =>
                (exitCode = 1 /\ out = <<RejectionLine>>)
    /\ (fn = "send_reply" /\ loc.msg # None) =>
        /\ args.reply_subject # <<>>
        /\ Contains(calls, "threads.get")
    /\ (fn = "send_reply" /\ Contains(calls, SendCall(args))) =>
        /\ loc.msg # None
        /\ \E i, j \in DOMAIN calls :
            i < j /\ calls[i] = "threads.get" /\ calls[j] = SendCall(args)

\* The rejection of a reply without subject, and a reply sent after lookup.
C13_Witness ==
    /\ ReplyWithoutSubject
    /\ pc = "done"
    /\ exitCode = 1
    /\ out = <<RejectionLine>>

C13_WitnessReply ==
    /\ fn = "send_reply"
    /\ pc = "done"
    /\ Get(result, "success")
    /\ Contains(calls, "threads.get")

\* A capture run with --save that fetched every listed message and so
\* entered the save block.
SaveAttempted ==
    /\ tool = "capture_email.py"
    /\ args.save
    /\ pc = "done"
    /\ loc.captured # <<>>
    /\ Len(loc.captured) = Len(loc.messages)

\* ... and left it without an exception.
CaptureSaved == SaveAttempted /\ ~uncaught

\* The cache as a later run reloads it, and as this run found it.
Reloaded == LoadedCache(disk.cache)
CacheBefore == LoadedCache(disk0.cache)

CapturedKeys == {CacheKey(loc.captured[j]) : j \in DOMAIN loc.captured}

\* C14: with save requested, a cache file that is missing, unparseable, or
\* parseable but not a JSON object counts as an empty cache: the run does
\* not fail and the cache file then holds the newly captured records and
\* nothing else.
C14_AsStated ==
    (SaveAttempted /\ disk0.cache.kind \in {"absent", "corrupt", "array"}) =>
        /\ ~uncaught
        /\ disk.cache.kind = "object"
        /\ {Reloaded[i].key : i \in DOMAIN Reloaded} = CapturedKeys
        /\ \A i \in DOMAIN Reloaded :
            \E j \in DOMAIN loc.captured :
                /\ Reloaded[i].key = CacheKey(loc.captured[j])
                /\ Reloaded[i].value = loc.captured[j]

\* C15: saving is an idempotent merge.  After a save, the reloaded cache
\* returns each captured record unchanged under its key; no key stands
\* twice in the cache, so saving a message again under its key adds no
\* second entry; and every entry the cache held under another key is still
\* there unchanged.
C15_AsStated ==
    CaptureSaved =>
        /\ \A j \in DOMAIN loc.captured :
            /\ HasKey(Reloaded, CacheKey(loc.captured[j]))
            /\ Lookup(Reloaded, CacheKey(loc.captured[j])) = loc.captured[j]
        /\ \A i, j \in DOMAIN disk.cache.data :
            i # j => disk.cache.data[i][1] # disk.cache.data[j][1]
        /\ \A i \in DOMAIN CacheBefore :
            CacheBefore[i].key \notin CapturedKeys =>
                /\ HasKey(Reloaded, CacheBefore[i].key)
                /\ Lookup(Reloaded, CacheBefore[i].key) = CacheBefore[i].value

\* C19: with save requested, after the cache is written every message
\* captured in the invocation is in the cache as its own record: no two
\* captured messages have the same cache key.
C19_AsStated ==
    CaptureSaved =>
        /\ \A i, j \in DOMAIN loc.captured :
            i # j => CacheKey(loc.captured[i]) # CacheKey(loc.captured[j])
        /\ \A j \in DOMAIN loc.captured :
            \E i \in DOMAIN Reloaded : Reloaded[i].value = loc.captured[j]

\* The operator declined at the confirmation gate and the function returned.
CancelledAtGate == fn \in GatedFns /\ loc.gate = "cancelled" /\ result # None

\* Only the cancelled result carries preview_only.
C16_Distinguished ==
    (fn \in GatedFns /\ result # None) =>
        ("preview_only" \in DOMAIN result <=> loc.gate = "cancelled")

\* The human-readable output of a cancelled run has no "Failed: " line.
C16_NoFailureLine ==
    (CancelledAtGate /\ pc = "done" /\ ~args.json) =>
        \A i \in DOMAIN out :
            "text" \in DOMAIN out[i] => out[i].text[1] # "Failed: "

\* The record printed for --json consumers has no error message.
C16_NoErrorForJson ==
    (CancelledAtGate /\ pc = "done" /\ args.json) =>
        \A i \in DOMAIN out :
            "json" \in DOMAIN out[i] => "error" \notin DOMAIN out[i].json

\* C16: cancellation at the gate is a distinguished outcome and not an
\* error: only the cancelled result carries preview_only, the human-readable
\* output prints no failure line for it, and it is not presented, to the
\* operator or to --json consumers, as a failure with an error message.
C16_AsStated ==
    /\ C16_Distinguished
    /\ C16_NoFailureLine
    /\ C16_NoErrorForJson

\* What the process wrote to standard output.
StdoutLines == SelectSeq(out, LAMBDA o : o.stream = "stdout")

\* C17: a finished run of any tool with --json (its command line accepted)
\* has written to standard output one serialized result record and nothing
\* else; the record has a boolean success field, and when success is false
\* it has an error message.
C17_AsStated ==
    (pc = "done" /\ args.json /\ FirstPc(tool, args) # "usage") =>
        /\ Len(StdoutLines) = 1
        /\ "json" \in DOMAIN StdoutLines[1]
        /\ "success" \in DOMAIN StdoutLines[1].json
        /\ StdoutLines[1].json.success \in BOOLEAN
        /\ ~StdoutLines[1].json.success =>
                "error" \in DOMAIN StdoutLines[1].json

\* C18: for every successful send or draft of send_email, send_reply and
\* send_designer_notification, the subject echoed in the result record, and
\* the subject the confirmation preview showed when the operator was asked,
\* equal the Subject header of the message handed to the provider.
C18_AsStated ==
    (fn \in GatedFns /\ FnReturned /\ Get(result, "success")) =>
        /\ result.subject = loc.msg.subject
        /\ loc.gate = "passed" => loc.preview = loc.msg.subject

====
